---- MODULE Spec2Model ----
(***************************************************************************)
(* Model of the batch upload pipeline of the Amazon FBA image optimizer:   *)
(* the fixed-window rate limiter and the validators of lib/security.ts,    *)
(* the quota tracker and the upload of lib/cloudinary.ts, the POST handler *)
(* of app/api/process/route.ts, the two download relays of                 *)
(* app/api/proxy/download and app/api/batch/[batchId]/download, and the    *)
(* uploader with the two revisions of Home.handleUpload.                   *)
(*                                                                         *)
(* Time is in milliseconds, as Date.now() gives it. Usage of bandwidth and *)
(* storage is counted in MiB instead of bytes (25 GiB does not fit a TLC   *)
(* integer); the two thresholds, 80% and 100% of 25 GiB, are whole MiB.    *)
(***************************************************************************)
EXTENDS Integers, Sequences, FiniteSets, TLC

VARIABLES
    now,             \* the last value Date.now() returned
    rateLimitStore,  \* security.ts: Map identifier -> {count, resetTime}
    calls,           \* history: the calls of checkRateLimit, with their answers
    credentials,     \* the three CLOUDINARY_* environment variables are set
    remoteUsage,     \* the remote service's usage figures (external state)
    pc,              \* POST /api/process: where the handler is
    requests,        \* number of POST requests received so far
    files,           \* POST: formData.getAll('images')
    usageCheck,      \* POST: the snapshot of line 66
    task,            \* POST: the per-file promises of files.map
    usageQueries,    \* remote usage queries issued for the current request
    uploadCalls,     \* indices of the files whose upload_stream was issued
    response,        \* POST: the response returned
    val,             \* one file handed to the validators, and their verdict
    proxy,           \* POST /api/proxy/download: the request and its fetches
    bundle,          \* POST /api/batch/[batchId]/download: request, loop, archive
    uploader,        \* ImageUploader and Home: the selection and its submission
    tracker,         \* checkUsageLimit on one usage report at one calendar date
    inflight,        \* concurrent POST requests: where each handler is
    promise,         \* the upload promise of the revision with the timeout
    home             \* the Home page: its state and its per-file loop

rlVars == <<now, rateLimitStore, calls>>
postVars == <<credentials, remoteUsage, pc, requests, files, usageCheck, task,
              usageQueries, uploadCalls, response>>
vars == <<now, rateLimitStore, calls, credentials, remoteUsage, pc, requests,
          files, usageCheck, task, usageQueries, uploadCalls, response, val,
          proxy, bundle, uploader, tracker, inflight, promise, home>>
lateVars == <<inflight, promise, home>>
baseSide == <<proxy, bundle, uploader, tracker>>
sideVars == <<proxy, bundle, uploader, tracker, lateVars>>

----------------------------------------------------------------------------
(* Bounds of the model *)

\* RATE_LIMIT_PER_MINUTE as configured for the model (the default is 60).
rateLimitPerMinute == 2
\* Arrival times lie in the windows 0 .. MaxWindows of 60 seconds.
MaxWindows == 2
\* Number of checkRateLimit calls recorded in the history.
MaxCalls == 4
\* MAX_CONCURRENT_UPLOADS as configured for the model (the default is 5).
maxConcurrentUploads == 2
\* Number of POST requests one behaviour receives.
MaxRequests == 3

----------------------------------------------------------------------------
(* lib/security.ts: the rate limiter *)

\* 60 * 1000: the length of one window.
WINDOW_MS == 60 * 1000

ClientIds == {"10.0.0.1", "unknown"}

\* Offsets of the arrival times inside a window.
Offsets == {0, 1, 59000}
TimePoints == {w * WINDOW_MS + o : w \in 0..MaxWindows, o \in Offsets}
\* The times at which a POST request arrives.
ArrivalTimes == {0, WINDOW_MS + 1}

\* Math.ceil(a / b), b > 0.
Ceil(a, b) == -((-a) \div b)

HasEntry(store, id) == id \in DOMAIN store

\* Mutant: the window is taken as elapsed at its reset time already.
ExpiredAtReset(store, id, t) == t >= store[id].resetTime

\* `now > userLimit.resetTime`
Expired(store, id, t) == t > store[id].resetTime

\* `!userLimit || now > userLimit.resetTime`: a new window starts.
StartsWindow(store, id, t) == ~HasEntry(store, id) \/ Expired(store, id, t)

\* Mutant: the comparison lets one more request through.
LimitReachedLate(entry) == entry.count > rateLimitPerMinute

\* `userLimit.count >= SECURITY_CONFIG.rateLimitPerMinute`
LimitReached(entry) == entry.count >= rateLimitPerMinute

\* Mutant: the increment is lost.
CheckRateLimitStoreLost(store, id, t) ==
    IF StartsWindow(store, id, t)
    THEN [k \in DOMAIN store \cup {id} |->
            IF k = id THEN [count |-> 1, resetTime |-> t + WINDOW_MS]
                      ELSE store[k]]
    ELSE store

\* Mutant: a call that opens a window also drops the elapsed entries of the
\* other identifiers.
CheckRateLimitStoreSweeping(store, id, t) ==
    IF StartsWindow(store, id, t)
    THEN [k \in {i \in DOMAIN store : ~(t > store[i].resetTime)} \cup {id} |->
            IF k = id THEN [count |-> 1, resetTime |-> t + WINDOW_MS]
                      ELSE store[k]]
    ELSE IF LimitReached(store[id])
    THEN store
    ELSE [store EXCEPT ![id].count = @ + 1]

\* The store after checkRateLimit(id) called at time t.
CheckRateLimitStore(store, id, t) ==
    IF StartsWindow(store, id, t)
    THEN [k \in DOMAIN store \cup {id} |->
            IF k = id THEN [count |-> 1, resetTime |-> t + WINDOW_MS]
                      ELSE store[k]]
    ELSE IF LimitReached(store[id])
    THEN store
    ELSE [store EXCEPT ![id].count = @ + 1]

\* What checkRateLimit(id) returns at time t; retryAfter is -1 when absent.
CheckRateLimitResult(store, id, t) ==
    IF StartsWindow(store, id, t)
    THEN [allowed |-> TRUE, retryAfter |-> -1]
    ELSE IF LimitReached(store[id])
    THEN [allowed |-> FALSE,
          retryAfter |-> Ceil(store[id].resetTime - t, 1000)]
    ELSE [allowed |-> TRUE, retryAfter |-> -1]

\* The store after cleanupRateLimitStore() run at time t.
\* Mutant: the sweep removes an entry at its reset time already.
CleanupStoreAtReset(store, t) ==
    [k \in {i \in DOMAIN store : ~(t >= store[i].resetTime)} |-> store[k]]

CleanupStore(store, t) ==
    [k \in {i \in DOMAIN store : ~(t > store[i].resetTime)} |-> store[k]]

\* One call of checkRateLimit, at a time t not before the last clock reading.
\* The history keeps the answer and the window the call fell in.
CheckRateLimit(id, t) ==
    /\ Len(calls) < MaxCalls
    /\ t >= now
    /\ now' = t
    /\ rateLimitStore' = CheckRateLimitStore(rateLimitStore, id, t)
    /\ calls' = Append(calls,
          [id |-> id, t |-> t,
           allowed |-> CheckRateLimitResult(rateLimitStore, id, t).allowed,
           retryAfter |-> CheckRateLimitResult(rateLimitStore, id, t).retryAfter,
           window |-> rateLimitStore'[id].resetTime])
    /\ UNCHANGED <<postVars, val, sideVars>>

\* The periodic sweep (setInterval, every 5 minutes; here at any time).
cleanupRateLimitStore(t) ==
    /\ t >= now
    /\ now' = t
    /\ rateLimitStore' = CleanupStore(rateLimitStore, t)
    /\ UNCHANGED <<calls, postVars, val, sideVars>>

----------------------------------------------------------------------------
\* setInterval(cleanupRateLimitStore, 5 * 60 * 1000), registered when the
\* module is loaded (time 0): the timer runs the sweep every 5 minutes.
SWEEP_INTERVAL_MS == 5 * 60 * 1000
MaxSweeps == 2
MaxSweepCalls == 3
Horizon == MaxSweeps * SWEEP_INTERVAL_MS
SweepOffsets == {0, 1, SWEEP_INTERVAL_MS - WINDOW_MS}
SweepClock ==
    {k * SWEEP_INTERVAL_MS + o : k \in 0..(MaxSweeps - 1), o \in SweepOffsets}
        \cup {Horizon}
NextSweepTime(t) == ((t \div SWEEP_INTERVAL_MS) + 1) * SWEEP_INTERVAL_MS

\* Time passes between two runs of the timer.
Sweep_Advance(t) ==
    /\ t \in SweepClock
    /\ now < t
    /\ t < NextSweepTime(now)
    /\ now' = t
    /\ UNCHANGED <<rateLimitStore, calls, postVars, val, sideVars>>

\* The timer fires: the sweep runs at the next multiple of the interval.
Sweep_Timer ==
    /\ NextSweepTime(now) <= Horizon
    /\ cleanupRateLimitStore(NextSweepTime(now))

\* A request at the present time; the last window opened ends before the
\* last sweep that is modelled.
Sweep_Request(id) ==
    /\ Len(calls) < MaxSweepCalls
    /\ now + WINDOW_MS < Horizon
    /\ CheckRateLimit(id, now)

----------------------------------------------------------------------------
(* lib/security.ts: client identifier and the validators *)

\* The request headers: x-forwarded-for as the list a split(',') gives (the
\* empty list when the header is absent or empty), x-real-ip ("" when absent).
Headers ==
    { [forwarded |-> << >>, realIp |-> ""],
      [forwarded |-> << >>, realIp |-> "10.0.0.1"],
      [forwarded |-> <<"10.0.0.1", "10.0.0.2">>, realIp |-> "10.0.0.9"] }

getClientIp(h) ==
    LET ip == IF h.forwarded # << >> THEN Head(h.forwarded) ELSE h.realIp
    IN  IF ip # "" THEN ip ELSE "unknown"

\* parseInt(process.env.MAX_FILE_SIZE_MB || '10')
MAX_FILE_SIZE_MB == 10
maxFileSize == MAX_FILE_SIZE_MB * 1024 * 1024

allowedMimeTypes == {"image/jpeg", "image/png", "image/gif", "image/webp"}

SizeError == "file size too large"
TypeError == "unsupported file type"

\* Mutant: a file of exactly the maximum size is refused.
validateFileSizeStrict(file) ==
    IF file.size >= maxFileSize
    THEN [valid |-> FALSE, error |-> SizeError]
    ELSE [valid |-> TRUE, error |-> ""]

validateFileSize(file) ==
    IF file.size > maxFileSize
    THEN [valid |-> FALSE, error |-> SizeError]
    ELSE [valid |-> TRUE, error |-> ""]

validateFileType(file) ==
    IF file.type \notin allowedMimeTypes
    THEN [valid |-> FALSE, error |-> TypeError]
    ELSE [valid |-> TRUE, error |-> ""]

----------------------------------------------------------------------------
(* lib/cloudinary.ts: the quota tracker *)

\* 25 * 1024 * 1024 * 1024 bytes, in MiB.
BANDWIDTH_LIMIT == 25 * 1024
STORAGE_LIMIT == 25 * 1024
TRANSFORMATIONS_LIMIT == 25000

\* (used / limit) * 100 > pct, and >= pct, without the division.
PctAbove(used, limit, pct) == used * 100 > pct * limit
PctAtLeast(used, limit, pct) == used * 100 >= pct * limit

\* The usage figures the remote service may report.
UsageLevels ==
    { [bandwidth |-> 0, storage |-> 0, transformations |-> 20000],
      [bandwidth |-> 0, storage |-> 0, transformations |-> 20001],
      [bandwidth |-> 0, storage |-> 0, transformations |-> 25000] }

AnyAbove80(u) ==
    \/ PctAbove(u.bandwidth, BANDWIDTH_LIMIT, 80)
    \/ PctAbove(u.storage, STORAGE_LIMIT, 80)
    \/ PctAbove(u.transformations, TRANSFORMATIONS_LIMIT, 80)

AnyAtLeast100(u) ==
    \/ PctAtLeast(u.bandwidth, BANDWIDTH_LIMIT, 100)
    \/ PctAtLeast(u.storage, STORAGE_LIMIT, 100)
    \/ PctAtLeast(u.transformations, TRANSFORMATIONS_LIMIT, 100)

\* Mutant: a failed usage query closes the gate.
checkUsageLimitFailClosed(u, ok) ==
    IF ~ok THEN [isNearLimit |-> FALSE, isOverLimit |-> TRUE, usage |-> << >>]
    ELSE IF AnyAbove80(u) THEN [isNearLimit |-> TRUE, isOverLimit |-> FALSE, usage |-> <<u>>]
    ELSE IF AnyAtLeast100(u) THEN [isNearLimit |-> FALSE, isOverLimit |-> TRUE, usage |-> <<u>>]
    ELSE [isNearLimit |-> FALSE, isOverLimit |-> FALSE, usage |-> <<u>>]

\* The snapshot checkUsageLimit() returns when the remote query answers u
\* (ok) or fails (~ok). usage is <<u>>, or << >> for null. A flag the
\* returned object leaves out is undefined, which the callers read as false.
checkUsageLimit(u, ok) ==
    IF ~ok
    THEN [isNearLimit |-> FALSE, isOverLimit |-> FALSE, usage |-> << >>]
    ELSE IF AnyAbove80(u)
    THEN [isNearLimit |-> TRUE, isOverLimit |-> FALSE, usage |-> <<u>>]
    ELSE IF AnyAtLeast100(u)
    THEN [isNearLimit |-> FALSE, isOverLimit |-> TRUE, usage |-> <<u>>]
    ELSE [isNearLimit |-> FALSE, isOverLimit |-> FALSE, usage |-> <<u>>]

NoSnapshot == [isNearLimit |-> FALSE, isOverLimit |-> FALSE, usage |-> << >>]

\* The remote usage changes (uploads of other clients, the monthly reset).
RemoteUsageChange(u) ==
    /\ u # remoteUsage
    /\ remoteUsage' = u
    /\ UNCHANGED <<rlVars, credentials, pc, requests, files, usageCheck, task,
                   usageQueries, uploadCalls, response, val, sideVars>>

----------------------------------------------------------------------------
(* lib/cloudinary.ts uploadAndOptimizeImage, app/api/process/route.ts POST *)

\* The files a request may carry: one more than the handler accepts.
MaxFiles == maxConcurrentUploads + 1
Names == <<"img1.jpg", "img2.jpg", "img3.jpg", "img4.jpg", "img5.jpg">>
FileKinds ==
    {[size |-> sz, type |-> ty] :
        sz \in {maxFileSize, maxFileSize + 1},
        ty \in {"image/jpeg", "image/bmp"}}
BatchesOf(n) ==
    {[i \in 1..n |-> [name |-> Names[i], size |-> k[i].size, type |-> k[i].type]] :
        k \in [1..n -> FileKinds]}
Batches == UNION {BatchesOf(n) : n \in 0..MaxFiles}

\* The text uploadAndOptimizeImage throws when isOverLimit is set, the
\* message of an error the remote upload reports, and the text of line 230.
QuotaMessage == "free quota exceeded"
RemoteErrorMessage == "remote upload error"
NoResultMessage == "no upload result"
\* `errorMessage.includes('...')` of route.ts line 130
IncludesQuotaText(m) == m = QuotaMessage

\* What the upload_stream callback is called with.
Callbacks == {"error", "result", "neither"}

NoResponse ==
    [status |-> 0, error |-> "", retryAfter |-> -1, completed |-> FALSE,
     total |-> 0, processed |-> 0, failed |-> 0, results |-> << >>,
     errors |-> << >>, usage |-> << >>, message |-> ""]

\* A top-level error response.
ErrorResponse(status, error, retryAfter) ==
    [NoResponse EXCEPT !.status = status, !.error = error,
                       !.retryAfter = retryAfter]

\* The value a per-file promise of files.map resolves to.
Failure(file, msg, quota) ==
    [stage |-> "done", success |-> FALSE, data |-> << >>,
     error |-> <<[fileName |-> file.name, error |-> msg]>>,
     isQuotaError |-> quota]
Success(file, i) ==
    [stage |-> "done", success |-> TRUE,
     data |-> <<[originalName |-> file.name, optimizedUrl |-> <<"main", i>>,
                 mainImageUrl |-> <<"main", i>>,
                 thumbnailUrl |-> <<"thumbnail", i>>,
                 width |-> 2000, height |-> 2000]>>,
     error |-> << >>, isQuotaError |-> FALSE]
Pending(stage) ==
    [stage |-> stage, success |-> FALSE, data |-> << >>, error |-> << >>,
     isQuotaError |-> FALSE]

\* Lines 73-95: the two validators, in this order.
Rejected(file) ==
    ~validateFileSize(file).valid \/ ~validateFileType(file).valid
RejectionReason(file) ==
    IF ~validateFileSize(file).valid THEN validateFileSize(file).error
    ELSE validateFileType(file).error

\* Mutant: the per-file task skips the validators.
StartTaskUnchecked(file) == Pending("usage")

\* files.map(async ...) up to the first network round trip of each file: a
\* rejected file is settled at once, an accepted one reads its buffer, enters
\* uploadAndOptimizeImage and issues its own usage query (lines 97-101 and
\* cloudinary.ts 150-155).
StartTask(file) ==
    IF Rejected(file) THEN Failure(file, RejectionReason(file), FALSE)
    ELSE Pending("usage")

\* Mutant: the handler goes on as soon as one promise has settled.
AnySettled == \E i \in DOMAIN task : task[i].stage = "done"

\* Promise.allSettled: every per-file promise has settled.
AllSettled == \A i \in DOMAIN task : task[i].stage = "done"

RECURSIVE CollectResults(_, _)
\* Lines 143-161, the results list of the tasks i .. Len(ts).
CollectResults(ts, i) ==
    IF i > Len(ts) THEN << >>
    ELSE IF ts[i].success /\ ts[i].data # << >>
         THEN <<ts[i].data[1]>> \o CollectResults(ts, i + 1)
         ELSE CollectResults(ts, i + 1)

RECURSIVE CollectErrorsMisnested(_, _)
\* Mutant: errors.push sits inside `if (isQuotaError)`.
CollectErrorsMisnested(ts, i) ==
    IF i > Len(ts) THEN << >>
    ELSE IF ~(ts[i].success /\ ts[i].data # << >>) /\ ts[i].error # << >>
            /\ ts[i].isQuotaError
         THEN <<ts[i].error[1]>> \o CollectErrorsMisnested(ts, i + 1)
         ELSE CollectErrorsMisnested(ts, i + 1)

RECURSIVE CollectErrors(_, _)
\* Lines 143-161, the errors list of the tasks i .. Len(ts).
CollectErrors(ts, i) ==
    IF i > Len(ts) THEN << >>
    ELSE IF ~(ts[i].success /\ ts[i].data # << >>) /\ ts[i].error # << >>
         THEN <<ts[i].error[1]>> \o CollectErrors(ts, i + 1)
         ELSE CollectErrors(ts, i + 1)

\* Line 181.
SummaryMessage(results) ==
    IF Len(results) > 0 THEN "images optimized" ELSE "processing failed"

\* Lines 169-184.
BatchResponse(fs, ts, snapshot) ==
    [status |-> 200, error |-> "", retryAfter |-> -1, completed |-> TRUE,
     total |-> Len(fs),
     processed |-> Len(CollectResults(ts, 1)),
     failed |-> Len(CollectErrors(ts, 1)),
     results |-> CollectResults(ts, 1),
     errors |-> CollectErrors(ts, 1),
     usage |-> snapshot.usage,
     message |-> SummaryMessage(CollectResults(ts, 1))]

\* Mutant: the credentials are checked before the rate limit.
POST_ReceiveCredentialsFirst(h, t) ==
    /\ pc \in {"idle", "responded"}
    /\ requests < MaxRequests
    /\ t >= now
    /\ now' = t
    /\ requests' = requests + 1
    /\ files' = << >>
    /\ task' = << >>
    /\ usageCheck' = NoSnapshot
    /\ usageQueries' = 0
    /\ uploadCalls' = {}
    /\ LET rl == CheckRateLimitResult(rateLimitStore, getClientIp(h), t)
       IN  IF ~credentials
           THEN /\ pc' = "responded"
                /\ response' = ErrorResponse(503, "configuration", -1)
                /\ UNCHANGED rateLimitStore
           ELSE /\ rateLimitStore' =
                      CheckRateLimitStore(rateLimitStore, getClientIp(h), t)
                /\ IF ~rl.allowed
                   THEN /\ pc' = "responded"
                        /\ response' =
                              ErrorResponse(429, "rate limit", rl.retryAfter)
                   ELSE /\ pc' = "formData"
                        /\ response' = NoResponse
    /\ UNCHANGED <<calls, credentials, remoteUsage, val, sideVars>>

\* Lines 14-42: a request arrives at time t with headers h. The rate limiter
\* and the credentials are checked, then the handler awaits the form data.
POST_Receive(h, t) ==
    /\ pc \in {"idle", "responded"}
    /\ requests < MaxRequests
    /\ t >= now
    /\ now' = t
    /\ requests' = requests + 1
    /\ rateLimitStore' = CheckRateLimitStore(rateLimitStore, getClientIp(h), t)
    /\ files' = << >>
    /\ task' = << >>
    /\ usageCheck' = NoSnapshot
    /\ usageQueries' = 0
    /\ uploadCalls' = {}
    /\ LET rl == CheckRateLimitResult(rateLimitStore, getClientIp(h), t)
       IN  IF ~rl.allowed
           THEN /\ pc' = "responded"
                /\ response' = ErrorResponse(429, "rate limit", rl.retryAfter)
           ELSE IF ~credentials
           THEN /\ pc' = "responded"
                /\ response' = ErrorResponse(503, "configuration", -1)
           ELSE /\ pc' = "formData"
                /\ response' = NoResponse
    /\ UNCHANGED <<calls, credentials, remoteUsage, val, sideVars>>

\* Mutant: the usage query is issued before the file checks.
POST_FormDataUsageFirst(parsable, fs) ==
    /\ pc = "formData"
    /\ usageQueries' = IF parsable THEN 1 ELSE 0
    /\ IF ~parsable
       THEN /\ pc' = "responded"
            /\ response' = ErrorResponse(500, "server error", -1)
            /\ UNCHANGED files
       ELSE IF Len(fs) = 0
       THEN /\ pc' = "responded"
            /\ response' = ErrorResponse(400, "no files", -1)
            /\ UNCHANGED files
       ELSE IF Len(fs) > maxConcurrentUploads
       THEN /\ pc' = "responded"
            /\ response' = ErrorResponse(400, "file count", -1)
            /\ UNCHANGED files
       ELSE /\ pc' = "usage"
            /\ files' = fs
            /\ UNCHANGED response
    /\ UNCHANGED <<rlVars, credentials, remoteUsage, requests, usageCheck,
                   task, uploadCalls, val, sideVars>>

\* Lines 44-66: the body is read: it cannot be parsed (the catch of line 186
\* answers 500), or it holds the files fs. An accepted batch issues the usage
\* query of line 66.
POST_FormData(parsable, fs) ==
    /\ pc = "formData"
    /\ IF ~parsable
       THEN /\ pc' = "responded"
            /\ response' = ErrorResponse(500, "server error", -1)
            /\ UNCHANGED <<files, usageQueries>>
       ELSE IF Len(fs) = 0
       THEN /\ pc' = "responded"
            /\ response' = ErrorResponse(400, "no files", -1)
            /\ UNCHANGED <<files, usageQueries>>
       ELSE IF Len(fs) > maxConcurrentUploads
       THEN /\ pc' = "responded"
            /\ response' = ErrorResponse(400, "file count", -1)
            /\ UNCHANGED <<files, usageQueries>>
       ELSE /\ pc' = "usage"
            /\ files' = fs
            /\ usageQueries' = 1
            /\ UNCHANGED response
    /\ UNCHANGED <<rlVars, credentials, remoteUsage, requests, usageCheck,
                   task, uploadCalls, val, sideVars>>

\* Lines 66-133: the usage query of the batch answers (ok) or fails, and
\* files.map starts every per-file task.
POST_Dispatch(ok) ==
    /\ pc = "usage"
    /\ pc' = "running"
    /\ usageCheck' = checkUsageLimit(remoteUsage, ok)
    /\ task' = [i \in 1..Len(files) |-> StartTask(files[i])]
    /\ usageQueries' =
          usageQueries + Cardinality({i \in 1..Len(files) : ~Rejected(files[i])})
    /\ UNCHANGED <<rlVars, credentials, remoteUsage, requests, files,
                   uploadCalls, response, val, sideVars>>

\* cloudinary.ts 155-235: the usage query of file i answers or fails; over the
\* limit the upload throws (caught at route.ts 122), else upload_stream is
\* issued.
Task_UsageReply(i, ok) ==
    /\ pc = "running"
    /\ i \in DOMAIN task
    /\ task[i].stage = "usage"
    /\ IF checkUsageLimit(remoteUsage, ok).isOverLimit
       THEN /\ task' = [task EXCEPT ![i] =
                  Failure(files[i], QuotaMessage, IncludesQuotaText(QuotaMessage))]
            /\ UNCHANGED uploadCalls
       ELSE /\ task' = [task EXCEPT ![i] = Pending("upload")]
            /\ uploadCalls' = uploadCalls \cup {i}
    /\ UNCHANGED <<rlVars, credentials, remoteUsage, pc, requests, files,
                   usageCheck, usageQueries, response, val, sideVars>>

\* cloudinary.ts 213-232 and route.ts 107-132: the upload callback of file i.
Task_UploadCallback(i, cb) ==
    /\ pc = "running"
    /\ i \in DOMAIN task
    /\ task[i].stage = "upload"
    /\ task' = [task EXCEPT ![i] =
          IF cb = "result" THEN Success(files[i], i)
          ELSE IF cb = "error"
          THEN Failure(files[i], RemoteErrorMessage,
                       IncludesQuotaText(RemoteErrorMessage))
          ELSE Failure(files[i], NoResultMessage,
                       IncludesQuotaText(NoResultMessage))]
    /\ UNCHANGED <<rlVars, credentials, remoteUsage, pc, requests, files,
                   usageCheck, usageQueries, uploadCalls, response, val, sideVars>>

\* Lines 136-184: all promises settled, the response is built.
POST_Aggregate ==
    /\ pc = "running"
    /\ AllSettled
    /\ pc' = "responded"
    /\ response' = BatchResponse(files, task, usageCheck)
    /\ UNCHANGED <<rlVars, credentials, remoteUsage, requests, files,
                   usageCheck, task, usageQueries, uploadCalls, val, sideVars>>

----------------------------------------------------------------------------
(* The validators on one file *)

ValSizes == {0, 1, maxFileSize - 1, maxFileSize, maxFileSize + 1, 2 * maxFileSize}
ValTypes ==
    {"image/jpeg", "image/png", "image/gif", "image/webp", "image/bmp",
     "image/jpg", "image/tiff", "image/svg+xml", "application/pdf",
     "text/plain", ""}
ValFiles ==
    {[name |-> "img1.jpg", size |-> sz, type |-> ty] :
        sz \in ValSizes, ty \in ValTypes}

NoVal == [file |-> [name |-> "", size |-> 0, type |-> ""], verdict |-> "none"]

\* route.ts 73-96 on the file of val: settled as a failure, or on to upload.
ValidateFile ==
    /\ val.verdict = "none"
    /\ val.file.name # ""
    /\ val' = [val EXCEPT !.verdict =
          IF StartTask(val.file).stage = "done"
          THEN StartTask(val.file).error[1].error
          ELSE "upload"]
    /\ UNCHANGED <<rlVars, postVars, sideVars>>

----------------------------------------------------------------------------
(* Strings read character by character *)

\* A string whose characters the code inspects is the sequence of its
\* characters. String.prototype.includes:
Includes(s, t) ==
    \E i \in 1..(Len(s) - Len(t) + 1) : SubSeq(s, i, i + Len(t) - 1) = t

\* The positions of character c in s, and the pieces around them.
PositionsOf(s, c) == {i \in 1..Len(s) : s[i] = c}
Largest(S) == CHOOSE i \in S : \A j \in S : j <= i
Smallest(S) == CHOOSE i \in S : \A j \in S : i <= j
\* s.split(c).pop()
AfterLast(s, c) ==
    IF PositionsOf(s, c) = {} THEN s
    ELSE SubSeq(s, Largest(PositionsOf(s, c)) + 1, Len(s))
\* s.split(c)[0]
BeforeFirst(s, c) ==
    IF PositionsOf(s, c) = {} THEN s
    ELSE SubSeq(s, 1, Smallest(PositionsOf(s, c)) - 1)

----------------------------------------------------------------------------
(* POST /api/proxy/download: the relay of one image *)

\* Requests the relay serves in one run.
MaxProxyRequests == 3

\* The text of line 17.
CloudinaryHostText == <<"r", "e", "s", ".", "c", "l", "o", "u", "d", "i",
                        "n", "a", "r", "y", ".", "c", "o", "m">>

\* The URLs a client may submit: none, an image of the remote service, and
\* URLs of other hosts that carry the text in the path, in the host name and
\* in the query, or not at all.
ProxyUrls ==
    << << >>,
       <<"h", "t", "t", "p", "s", ":", "/", "/", "r", "e", "s", ".", "c",
         "l", "o", "u", "d", "i", "n", "a", "r", "y", ".", "c", "o", "m",
         "/", "d", "/", "a", ".", "j", "p", "g">>,
       <<"h", "t", "t", "p", "s", ":", "/", "/", "e", "v", "i", "l", ".",
         "e", "x", "a", "m", "p", "l", "e", "/", "r", "e", "s", ".", "c",
         "l", "o", "u", "d", "i", "n", "a", "r", "y", ".", "c", "o", "m",
         "/", "a", ".", "j", "p", "g">>,
       <<"h", "t", "t", "p", "s", ":", "/", "/", "r", "e", "s", ".", "c",
         "l", "o", "u", "d", "i", "n", "a", "r", "y", ".", "c", "o", "m",
         ".", "e", "v", "i", "l", ".", "e", "x", "a", "m", "p", "l", "e",
         "/", "a", ".", "j", "p", "g">>,
       <<"h", "t", "t", "p", "s", ":", "/", "/", "e", "v", "i", "l", ".",
         "e", "x", "a", "m", "p", "l", "e", "/", "a", ".", "j", "p", "g",
         "?", "f", "r", "o", "m", "=", "r", "e", "s", ".", "c", "l", "o",
         "u", "d", "i", "n", "a", "r", "y", ".", "c", "o", "m">>,
       <<"h", "t", "t", "p", "s", ":", "/", "/", "e", "v", "i", "l", ".",
         "e", "x", "a", "m", "p", "l", "e", "/", "a", ".", "j", "p", "g">>,
       <<"h", "t", "t", "p", "s", ":", "/", "/", "c", "l", "o", "u", "d",
         "i", "n", "a", "r", "y", ".", "c", "o", "m", "/", "d", "/", "a",
         ".", "j", "p", "g">> >>

\* What a fetch may end with: an OK response whose body is read, an OK
\* response whose body cannot be read, a non-OK status, a network error, the
\* abort of the 10-second timer.
FetchOutcomes == {"ok", "body", "status", "throw", "abort"}

NoProxy ==
    [pc |-> "idle", url |-> 0, fetched |-> << >>, status |-> 0, error |-> "",
     requests |-> 0]

ProxyAnswer(status, error) ==
    [proxy EXCEPT !.pc = "responded", !.status = status, !.error = error,
                  !.requests = @ + 1]

\* Lines 4-31: the body is parsed and the URL checked; a URL that passes is
\* fetched.
Proxy_POST(parsable, u) ==
    /\ proxy.pc \in {"idle", "responded"}
    /\ proxy.requests < MaxProxyRequests
    /\ proxy' =
          IF ~parsable THEN [ProxyAnswer(500, "download error") EXCEPT !.url = 0]
          ELSE IF ProxyUrls[u] = << >>
          THEN [ProxyAnswer(400, "no url") EXCEPT !.url = u]
          ELSE IF ~Includes(ProxyUrls[u], CloudinaryHostText)
          THEN [ProxyAnswer(400, "invalid url") EXCEPT !.url = u]
          ELSE [proxy EXCEPT !.pc = "fetching", !.url = u, !.status = 0,
                             !.error = "", !.requests = @ + 1,
                             !.fetched = Append(@, u)]
    /\ UNCHANGED <<rlVars, postVars, val, bundle, uploader, tracker, lateVars>>

\* Lines 28-58: the fetch ends.
Proxy_FetchReply(outcome) ==
    /\ proxy.pc = "fetching"
    /\ proxy' =
          IF outcome = "ok"
          THEN [proxy EXCEPT !.pc = "responded", !.status = 200]
          ELSE [proxy EXCEPT !.pc = "responded", !.status = 500,
                             !.error = "download error"]
    /\ UNCHANGED <<rlVars, postVars, val, bundle, uploader, tracker, lateVars>>

----------------------------------------------------------------------------
(* POST /api/batch/[batchId]/download: the relay of a bundle *)

\* Fetches of one request that may fail.
MaxSkipped == 2

\* Line 24.
MAX_BUNDLE_IMAGES == 20

\* The request lists n URLs; the URL at position k (from 1) is one of three
\* shapes: with an extension, with an extension and a query, with neither.
BundleSizes ==
    {0, 1, 2, 3, MAX_BUNDLE_IMAGES - 1, MAX_BUNDLE_IMAGES, MAX_BUNDLE_IMAGES + 1}
BundleUrlShapes ==
    << <<"h", "t", "t", "p", "s", ":", "/", "/", "r", "e", "s", ".", "c",
         "l", "o", "u", "d", "i", "n", "a", "r", "y", ".", "c", "o", "m",
         "/", "d", "/", "a", ".", "j", "p", "g">>,
       <<"h", "t", "t", "p", "s", ":", "/", "/", "r", "e", "s", ".", "c",
         "l", "o", "u", "d", "i", "n", "a", "r", "y", ".", "c", "o", "m",
         "/", "d", "/", "b", ".", "p", "n", "g", "?", "v", "=", "1">>,
       <<"h", "t", "t", "p", "s", ":", "/", "/", "r", "e", "s", ".", "c",
         "l", "o", "u", "d", "i", "n", "a", "r", "y", ".", "c", "o", "m",
         "/", "d", "/", "c">> >>
BundleUrl(k) == BundleUrlShapes[((k - 1) % 3) + 1]

\* Line 52.
Extension(url) ==
    IF BeforeFirst(AfterLast(url, "."), "?") = << >> THEN <<"j", "p", "g">>
    ELSE BeforeFirst(AfterLast(url, "."), "?")

\* Line 53: `optimized_${i + 1}.${extension}`, i counted from 0.
Filename(i, url) == [number |-> i + 1, extension |-> Extension(url)]

\* Mutant: every entry is filed under one name.
ZipFileOneName(zip, name) ==
    IF zip = << >> THEN <<name>> ELSE zip

\* Line 55, zip.file(filename, buffer): a name already in the archive is
\* replaced, a new one is added. An entry is a file the handler files; the
\* folders the library may create for a name that holds a "/" are not
\* entries here.
ZipFile(zip, name) ==
    IF \E j \in 1..Len(zip) : zip[j] = name THEN zip ELSE Append(zip, name)

\* Mutant: the ceiling is compared one too high.
TooManyUrlsLate(n) == n > MAX_BUNDLE_IMAGES + 1

\* Line 24.
TooManyUrls(n) == n > MAX_BUNDLE_IMAGES

NoBundle ==
    [pc |-> "idle", n |-> 0, i |-> 0, fetches |-> 0, fetchedOk |-> {},
     skipped |-> 0, zip |-> << >>, status |-> 0, archive |-> << >>]

BundleAnswer(status) ==
    [NoBundle EXCEPT !.pc = "responded", !.status = status]

\* Lines 9-40: the body is parsed, the list counted, and the loop issues the
\* fetch of its first URL.
Bundle_POST(parsable, n) ==
    /\ bundle.pc \in {"idle", "responded"}
    /\ bundle' =
          IF ~parsable THEN BundleAnswer(500)
          ELSE IF n = 0 THEN [BundleAnswer(400) EXCEPT !.n = n]
          ELSE IF TooManyUrls(n) THEN [BundleAnswer(413) EXCEPT !.n = n]
          ELSE [NoBundle EXCEPT !.pc = "fetching", !.n = n, !.fetches = 1]
    /\ UNCHANGED <<rlVars, postVars, val, proxy, uploader, tracker, lateVars>>

\* Lines 35-59: the fetch of the URL at index i ends; a fetched image is
\* filed, any other outcome is skipped, and the loop goes on to the next URL
\* or leaves.
Bundle_FetchReply(outcome) ==
    /\ bundle.pc = "fetching"
    /\ outcome # "ok" => bundle.skipped < MaxSkipped
    /\ bundle' =
          [bundle EXCEPT
              !.zip = IF outcome = "ok"
                      THEN ZipFile(@, Filename(bundle.i, BundleUrl(bundle.i + 1)))
                      ELSE @,
              !.fetchedOk = IF outcome = "ok" THEN @ \cup {bundle.i + 1} ELSE @,
              !.skipped = IF outcome = "ok" THEN @ ELSE @ + 1,
              !.i = @ + 1,
              !.fetches = IF bundle.i + 1 < bundle.n THEN @ + 1 ELSE @,
              !.pc = IF bundle.i + 1 < bundle.n THEN "fetching" ELSE "zipping"]
    /\ UNCHANGED <<rlVars, postVars, val, proxy, uploader, tracker, lateVars>>

\* Lines 62-77: the archive is generated and returned.
Bundle_Generate ==
    /\ bundle.pc = "zipping"
    /\ bundle' = [bundle EXCEPT !.pc = "responded", !.status = 200,
                                !.archive = <<bundle.zip>>]
    /\ UNCHANGED <<rlVars, postVars, val, proxy, uploader, tracker, lateVars>>

----------------------------------------------------------------------------
(* ImageUploader and Home: the selection of images and its submission *)

\* Files one drop may hold.
MaxDropped == 9

\* ImageUploader.tsx 44-47 and 63.
MAX_SELECTED_FILES == 8
\* security.ts 9: the ceiling when MAX_CONCURRENT_UPLOADS is not set.
DEFAULT_MAX_CONCURRENT_UPLOADS == 5

\* The three check boxes of the uploader.
OutputSizeOptions == {"2000x2000", "970x600", "300x300"}

UploaderNames ==
    <<"p1.jpg", "p2.jpg", "p3.jpg", "p4.jpg", "p5.jpg", "p6.jpg", "p7.jpg",
      "p8.jpg", "p9.jpg", "p10.jpg">>

\* ImageUploader.tsx 88-103, compressImage: the k-th dropped image leaves
\* the compression as a JPEG of at most 1 MiB.
compressImage(k) ==
    [name |-> UploaderNames[k], size |-> 1024 * 1024, type |-> "image/jpeg"]

RECURSIVE Without(_, _)
\* array.filter((_, i) => i !== index), index counted from 1 here.
Without(s, index) ==
    IF s = << >> THEN << >>
    ELSE IF index = 1 THEN Tail(s)
    ELSE <<Head(s)>> \o Without(Tail(s), index - 1)

RECURSIVE FilterOut(_, _)
\* prev.filter(s => s !== size)
FilterOut(s, size) ==
    IF s = << >> THEN << >>
    ELSE IF Head(s) = size THEN FilterOut(Tail(s), size)
    ELSE <<Head(s)>> \o FilterOut(Tail(s), size)

NoUploader ==
    [selectedFiles |-> << >>, outputSizes |-> <<"2000x2000">>,
     stage |-> "selecting", sent |-> << >>, requested |-> << >>,
     posts |-> 0, answer |-> NoResponse]

\* ImageUploader.tsx 41-56: k files are dropped, the first eight are kept.
onDrop(k) ==
    /\ uploader.stage = "selecting"
    /\ uploader' = [uploader EXCEPT !.selectedFiles =
          IF k > MAX_SELECTED_FILES THEN [j \in 1..MAX_SELECTED_FILES |-> j]
          ELSE [j \in 1..k |-> j]]
    /\ UNCHANGED <<rlVars, postVars, val, proxy, bundle, tracker, lateVars>>

\* ImageUploader.tsx 68-86, index counted from 1 here.
removeFile(index) ==
    /\ uploader.stage = "selecting"
    /\ index \in 1..Len(uploader.selectedFiles)
    /\ uploader' = [uploader EXCEPT !.selectedFiles = Without(@, index)]
    /\ UNCHANGED <<rlVars, postVars, val, proxy, bundle, tracker, lateVars>>

\* ImageUploader.tsx 21-27; a box is clear exactly when its size is not in
\* the list (line 169), so only a size not yet listed is checked.
handleSizeToggle(size, checked) ==
    /\ uploader.stage = "selecting"
    /\ checked <=> ~(\E j \in 1..Len(uploader.outputSizes) :
                        uploader.outputSizes[j] = size)
    /\ uploader' = [uploader EXCEPT !.outputSizes =
          IF checked THEN Append(@, size) ELSE FilterOut(@, size)]
    /\ UNCHANGED <<rlVars, postVars, val, proxy, bundle, tracker, lateVars>>

\* route.ts 54-63 with the ceiling in force.
TooManyFiles(n, ceiling) == n > ceiling

\* route.ts 44-184 for a client's first request, credentials set: the files
\* fs arrive, the file at index failing (if any) fails at the remote service
\* and every other accepted file is uploaded. The form field outputSizes is
\* never read.
ProcessAnswer(fs, failing, ceiling) ==
    IF Len(fs) = 0 THEN ErrorResponse(400, "no files", -1)
    ELSE IF TooManyFiles(Len(fs), ceiling)
    THEN ErrorResponse(400, "file count", -1)
    ELSE BatchResponse(fs,
            [j \in 1..Len(fs) |->
                IF Rejected(fs[j]) THEN StartTask(fs[j])
                ELSE IF j = failing
                THEN Failure(fs[j], RemoteErrorMessage, FALSE)
                ELSE Success(fs[j], j)],
            NoSnapshot)

\* ImageUploader.tsx 105-123, the files handed to onUpload.
CompressedFiles ==
    [j \in 1..Len(uploader.selectedFiles) |->
        compressImage(uploader.selectedFiles[j])]

\* ImageUploader.tsx 105-123 and page.tsx 21-59: the selection is compressed
\* and sent in one request; the sizes chosen are dropped by handleUpload.
Home_handleUpload(failing) ==
    /\ uploader.stage = "selecting"
    /\ Len(uploader.selectedFiles) > 0
    /\ failing \in 0..Len(uploader.selectedFiles)
    /\ uploader' = [uploader EXCEPT
          !.stage = "answered",
          !.sent = CompressedFiles,
          !.requested = uploader.outputSizes,
          !.posts = 1,
          !.answer = ProcessAnswer(CompressedFiles, failing,
                                   DEFAULT_MAX_CONCURRENT_UPLOADS)]
    /\ UNCHANGED <<rlVars, postVars, val, proxy, bundle, tracker, lateVars>>

RECURSIVE PerFileResults(_, _, _)
\* part_006 26-64: the results pushed for the files j .. Len(fs), one request
\* per file.
PerFileResults(fs, j, failing) ==
    IF j > Len(fs) THEN << >>
    ELSE ProcessAnswer(<<fs[j]>>, IF j = failing THEN 1 ELSE 0,
                       DEFAULT_MAX_CONCURRENT_UPLOADS).results
         \o PerFileResults(fs, j + 1, failing)

RECURSIVE PerFileErrors(_, _, _)
\* part_006 26-72: a request that answers 200 pushes no error, whatever its
\* errors list holds.
PerFileErrors(fs, j, failing) ==
    IF j > Len(fs) THEN << >>
    ELSE (IF ProcessAnswer(<<fs[j]>>, IF j = failing THEN 1 ELSE 0,
                           DEFAULT_MAX_CONCURRENT_UPLOADS).status # 200
          THEN <<[fileName |-> fs[j].name, error |-> "request failed"]>>
          ELSE << >>)
         \o PerFileErrors(fs, j + 1, failing)

\* ImageUploader.tsx 105-123 and part_006 17-101: the selection is compressed
\* and sent one file per request, each with the sizes chosen.
Home_handleUploadPerFile(failing) ==
    /\ uploader.stage = "selecting"
    /\ Len(uploader.selectedFiles) > 0
    /\ failing \in 0..Len(uploader.selectedFiles)
    /\ uploader' = [uploader EXCEPT
          !.stage = "answered",
          !.sent = CompressedFiles,
          !.requested = uploader.outputSizes,
          !.posts = Len(CompressedFiles),
          !.answer = [NoResponse EXCEPT
              !.status = 200, !.completed = TRUE,
              !.total = Len(CompressedFiles),
              !.results = PerFileResults(CompressedFiles, 1, failing),
              !.errors = PerFileErrors(CompressedFiles, 1, failing),
              !.processed = Len(PerFileResults(CompressedFiles, 1, failing)),
              !.failed = Len(PerFileErrors(CompressedFiles, 1, failing))]]
    /\ UNCHANGED <<rlVars, postVars, val, proxy, bundle, tracker, lateVars>>

----------------------------------------------------------------------------
(* checkUsageLimit on one usage report, at one calendar date *)

\* A calendar date as the Date object holds it in local time: month from 0.
IsLeap(y) == (y % 4 = 0 /\ y % 100 # 0) \/ y % 400 = 0
DaysInMonth(y, m) ==
    IF m = 1 THEN (IF IsLeap(y) THEN 29 ELSE 28)
    ELSE IF m \in {3, 5, 8, 10} THEN 30
    ELSE 31

\* The dates the query may run at: two years, one of them a leap year, the
\* first day and the last four days of every month.
Years == {2023, 2024}
CalendarDays ==
    {t \in [year : Years, month : 0..11, day : {1, 28, 29, 30, 31}] :
        t.day <= DaysInMonth(t.year, t.month)}

\* Date.prototype.setMonth(month) for month in 0..12: the fields are set and
\* the date is normalised, a month 12 becoming January of the next year and
\* a day past the end of the month running over into the month after.
SetMonth(date, month) ==
    LET y == IF month > 11 THEN date.year + 1 ELSE date.year
        m == IF month > 11 THEN month - 12 ELSE month
    IN  IF date.day <= DaysInMonth(y, m)
        THEN [year |-> y, month |-> m, day |-> date.day]
        ELSE IF m = 11
        THEN [year |-> y + 1, month |-> 0, day |-> date.day - DaysInMonth(y, m)]
        ELSE [year |-> y, month |-> m + 1, day |-> date.day - DaysInMonth(y, m)]

\* Date.prototype.setDate(day) for a day every month has.
SetDate(date, day) == [date EXCEPT !.day = day]

\* toLocaleDateString('ja-JP'): year/month/day, the month counted from 1.
ToLocaleDateString(date) == <<date.year, date.month + 1, date.day>>

\* cloudinary.ts 66-69, as lines 89 and 102 print it.
nextResetDate(today) ==
    ToLocaleDateString(SetDate(SetMonth(today, today.month + 1), 1))

\* The usage reports the query may return: every figure below, at, just
\* above 80% of its limit, or at the limit.
TrackerUsages ==
    {[bandwidth |-> b, storage |-> s, transformations |-> t] :
        b \in {0, (BANDWIDTH_LIMIT * 4) \div 5 + 1, BANDWIDTH_LIMIT},
        s \in {0, (STORAGE_LIMIT * 4) \div 5, STORAGE_LIMIT},
        t \in {0, 20000, 20001, TRANSFORMATIONS_LIMIT}}

\* cloudinary.ts 50-123 with the date: the snapshot of checkUsageLimit, the
\* next reset date in the two branches that carry it.
UsageSnapshot(u, ok, today) ==
    [isNearLimit |-> checkUsageLimit(u, ok).isNearLimit,
     isOverLimit |-> checkUsageLimit(u, ok).isOverLimit,
     usage |-> checkUsageLimit(u, ok).usage,
     nextResetDate |->
        IF checkUsageLimit(u, ok).isNearLimit \/ checkUsageLimit(u, ok).isOverLimit
        THEN <<nextResetDate(today)>>
        ELSE << >>]

\* One call of checkUsageLimit: the usage query answers or fails.
Tracker_Check(ok) ==
    /\ tracker.snapshot = << >>
    /\ tracker' = [tracker EXCEPT !.queryOk = ok,
          !.snapshot = <<UsageSnapshot(tracker.usage, ok, tracker.today)>>]
    /\ UNCHANGED <<rlVars, postVars, val, proxy, bundle, uploader, lateVars>>

NoTracker ==
    [usage |-> [bandwidth |-> 0, storage |-> 0, transformations |-> 0],
     today |-> [year |-> 2024, month |-> 0, day |-> 1],
     queryOk |-> TRUE, snapshot |-> << >>]

----------------------------------------------------------------------------

(* Concurrent POST requests on the shared rate-limit store *)

\* Handlers that may be in flight together.
MaxInflight == 2

\* The times at which concurrent requests arrive.
ConcTimes == {0, 1, WINDOW_MS + 1}

\* Where a handler is suspended; "none" is a free slot (no request, or the
\* response returned).
NoInflight == [r \in 1..MaxInflight |-> "none"]

\* The await a suspended handler reaches next: route.ts 44 (form data), 66
\* (usage query), 136 (the uploads), then the response.
NextAwait(stage) ==
    CASE stage = "formData" -> "usage"
      [] stage = "usage" -> "upload"
      [] stage = "upload" -> "none"

\* route.ts 12-44: handler r starts and runs, without suspension, up to its
\* first await: identifier, checkRateLimit, then 429 or the read of the body.
Conc_Arrive(r, h, t) ==
    /\ inflight[r] = "none"
    /\ Len(calls) < MaxCalls
    /\ t >= now
    /\ now' = t
    /\ rateLimitStore' = CheckRateLimitStore(rateLimitStore, getClientIp(h), t)
    /\ calls' = Append(calls,
          [id |-> getClientIp(h), t |-> t,
           allowed |-> CheckRateLimitResult(rateLimitStore, getClientIp(h), t).allowed,
           retryAfter |->
               CheckRateLimitResult(rateLimitStore, getClientIp(h), t).retryAfter,
           window |-> rateLimitStore'[getClientIp(h)].resetTime])
    /\ inflight' = [inflight EXCEPT ![r] =
          IF CheckRateLimitResult(rateLimitStore, getClientIp(h), t).allowed
          THEN "formData" ELSE "none"]
    /\ UNCHANGED <<postVars, val, baseSide, promise, home>>

\* route.ts 44-184: a network round trip of handler r completes and the
\* handler runs to its next await; none of these stretches reads or writes
\* the store.
Conc_Resume(r) ==
    /\ inflight[r] # "none"
    /\ inflight' = [inflight EXCEPT ![r] = NextAwait(@)]
    /\ UNCHANGED <<rlVars, postVars, val, baseSide, promise, home>>

----------------------------------------------------------------------------
(* unnamed/part_009, uploadAndOptimizeImage with the 30-second timeout, and
   the outcome app/api/process/route.ts makes of it *)

MaxTimeoutFiles == 3

UploadCallbacks == {"error", "result", "empty"}

\* Lines 161-165: the promise is created pending, its timer armed, and the
\* upload stream has its callback still to come.
NewUpload ==
    [state |-> "pending", value |-> "none", timer |-> "armed",
     callback |-> "pending", outcome |-> "none"]

NoPromise ==
    [pc |-> "idle", n |-> 0, uploads |-> << >>, results |-> << >>,
     errors |-> << >>]

\* Mutant: a later resolve or reject replaces the settlement.
SettleAgain(p, state, value) == [p EXCEPT !.state = state, !.value = value]

\* resolve(...) and reject(...) of line 161's promise: the first call settles
\* it, a later call has no effect.
Settle(p, state, value) ==
    IF p.state = "pending"
    THEN [p EXCEPT !.state = state, !.value = value]
    ELSE p

\* route.ts lines 97-133: the continuation of `await uploadAndOptimizeImage`,
\* run when the promise takes a settlement: a result becomes a success, a
\* rejection the error of the file with the message of the rejection.
OutcomeOf(p) ==
    IF p.state = "fulfilled" THEN "success" ELSE p.value

Continue(old, new) ==
    IF new.state # old.state \/ new.value # old.value
    THEN [new EXCEPT !.outcome = OutcomeOf(new)]
    ELSE new

\* route.ts lines 136-161: Promise.allSettled answers when every file has its
\* outcome; the loop files each success and each error in the order of the
\* request.
Indices(n) == [i \in 1..n |-> i]

AggregateResults(us) ==
    SelectSeq(Indices(Len(us)), LAMBDA i : us[i].outcome = "success")

AggregateErrors(us) ==
    LET failed == SelectSeq(Indices(Len(us)),
                            LAMBDA i : us[i].outcome # "success")
    IN  [j \in 1..Len(failed) |->
            [fileName |-> failed[j], error |-> us[failed[j]].outcome]]

\* One turn of the event loop on the upload of file f: the settlement the
\* event asks for, the continuation of the route and, when the last outcome
\* arrives, the aggregation.
PromiseTurn(f, new) ==
    LET us == [promise.uploads EXCEPT ![f] = Continue(@, new)]
        last == /\ promise.pc = "running"
                /\ \A g \in 1..Len(us) : us[g].outcome # "none"
    IN  promise' =
            IF last
            THEN [promise EXCEPT !.uploads = us, !.pc = "responded",
                                 !.results = AggregateResults(us),
                                 !.errors = AggregateErrors(us)]
            ELSE [promise EXCEPT !.uploads = us]

\* The batch is dispatched: one pending upload per file.
Promise_Dispatch(n) ==
    /\ promise.pc = "idle"
    /\ promise' = [promise EXCEPT !.pc = "running", !.n = n,
                                  !.uploads = [f \in 1..n |-> NewUpload]]
    /\ UNCHANGED <<rlVars, postVars, val, baseSide, inflight, home>>

\* Lines 163-165: the timer fires after 30 seconds unless it was cleared.
Promise_Timeout(f) ==
    /\ f \in 1..Len(promise.uploads)
    /\ promise.uploads[f].timer = "armed"
    /\ PromiseTurn(f, [Settle(promise.uploads[f], "rejected", "timeout")
                          EXCEPT !.timer = "fired"])
    /\ UNCHANGED <<rlVars, postVars, val, baseSide, inflight, home>>

\* Lines 215-236: the callback of the upload stream, whenever the remote
\* service answers, before or after the timer and the response.
Promise_Callback(f, cb) ==
    /\ f \in 1..Len(promise.uploads)
    /\ promise.uploads[f].callback = "pending"
    /\ PromiseTurn(f,
          [(CASE cb = "error" ->
                   Settle(promise.uploads[f], "rejected", "upload error")
              [] cb = "result" ->
                   Settle(promise.uploads[f], "fulfilled", "result")
              [] cb = "empty" ->
                   Settle(promise.uploads[f], "rejected", "no result"))
             EXCEPT !.timer = IF @ = "armed" THEN "cleared" ELSE @,
                    !.callback = cb])
    /\ UNCHANGED <<rlVars, postVars, val, baseSide, inflight, home>>

----------------------------------------------------------------------------
(* The Home page, app/page.tsx (one request for the selection) and
   unnamed/part_006 (one request per file): its three state cells, the
   upload handler at each of its awaits, the delayed completion and the
   reset *)

MaxPageFiles == 3

\* What one POST /api/process of the per-file loop brings back: an answer
\* that is not 2xx or carries `error` (thrown at lines 44-50), a 200 with one
\* result, or a 200 whose results are empty and whose errors hold the file
\* (route.ts 169-184).
PerFileAnswers == {"error", "result", "empty"}

\* useState of lines 13-15, with the locals of a running handleUpload. A
\* batch is << >> for null and otherwise the one-element list of its data.
NoHome ==
    [batchInfo |-> << >>, processing |-> FALSE, error |-> "null",
     pc |-> "rest", n |-> 0, i |-> 0, results |-> << >>, errors |-> << >>,
     batchData |-> << >>]

\* The four blocks of the render, part_006 118-147 and page.tsx 105-142.
ErrorCardRendered(h) == h.error # "null"
UploaderRendered(h) ==
    h.batchInfo = << >> /\ ~h.processing /\ h.error = "null"
ProcessingStatusRendered(h) == h.processing
DownloadManagerRendered(h) == h.batchInfo # << >> /\ ~h.processing

\* Mutant: the catch sets the error and leaves processing on.
CatchStillProcessing(h, message) ==
    [h EXCEPT !.error = message, !.pc = "rest"]

\* The catch of part_006 96-100 and page.tsx 55-59: setError and
\* setProcessing(false), rendered together.
Catch(h, message) ==
    [h EXCEPT !.error = message, !.processing = FALSE, !.pc = "rest"]

\* Lines 17-33 of part_006: the uploader hands over n files; processing is
\* set, the error cleared, and the request of the first file leaves.
Page_handleUpload(n) ==
    /\ UploaderRendered(home)
    /\ home.pc = "rest"
    /\ home' = [home EXCEPT !.processing = TRUE, !.error = "null",
                            !.pc = "fetching", !.n = n, !.i = 0,
                            !.results = << >>, !.errors = << >>,
                            !.batchData = << >>]
    /\ UNCHANGED <<rlVars, postVars, val, baseSide, inflight, promise>>

\* Lines 42-100 of part_006: the request of file i + 1 is answered. A result
\* is pushed to results, a thrown error to errors; after the last file the
\* handler throws when nothing succeeded and something failed, and otherwise
\* arms the timer of the completion.
Page_FetchReply(a) ==
    /\ home.pc = "fetching"
    /\ LET results == IF a = "result" THEN Append(home.results, home.i + 1)
                      ELSE home.results
           errors == IF a = "error" THEN Append(home.errors, home.i + 1)
                     ELSE home.errors
           h == [home EXCEPT !.results = results, !.errors = errors,
                             !.i = @ + 1]
       IN  home' =
              IF home.i + 1 < home.n THEN h
              ELSE IF Len(results) = 0 /\ Len(errors) > 0
              THEN Catch(h, "all failed")
              ELSE [h EXCEPT !.pc = "delay",
                             !.batchData = <<[total_images |-> home.n,
                                              processed |-> Len(results),
                                              failed |-> Len(errors)]>>]
    /\ UNCHANGED <<rlVars, postVars, val, baseSide, inflight, promise>>

\* Lines 21-32 of page.tsx: the whole selection leaves in one request.
Page_handleUploadOnce ==
    /\ UploaderRendered(home)
    /\ home.pc = "rest"
    /\ home' = [home EXCEPT !.processing = TRUE, !.error = "null",
                            !.pc = "single", !.n = 0, !.i = 0,
                            !.results = << >>, !.errors = << >>,
                            !.batchData = << >>]
    /\ UNCHANGED <<rlVars, postVars, val, baseSide, inflight, promise>>

\* Lines 34-59 of page.tsx: the request is answered: an error answer is
\* thrown and caught, any other arms the timer with the body as the batch.
Page_ReplyOnce(ok) ==
    /\ home.pc = "single"
    /\ home' = IF ok
               THEN [home EXCEPT !.pc = "delay", !.batchData = <<"data">>]
               ELSE Catch(home, "request failed")
    /\ UNCHANGED <<rlVars, postVars, val, baseSide, inflight, promise>>

\* The callback of setTimeout, part_006 91-94 and page.tsx 50-53.
Page_Timer ==
    /\ home.pc = "delay"
    /\ home' = [home EXCEPT !.batchInfo = home.batchData,
                            !.processing = FALSE, !.pc = "rest"]
    /\ UNCHANGED <<rlVars, postVars, val, baseSide, inflight, promise>>

\* handleReset, from the button of the error card or of the download
\* manager, whichever is rendered.
Page_handleReset ==
    /\ ErrorCardRendered(home) \/ DownloadManagerRendered(home)
    /\ home' = [home EXCEPT !.batchInfo = << >>, !.error = "null"]
    /\ UNCHANGED <<rlVars, postVars, val, baseSide, inflight, promise>>


----------------------------------------------------------------------------

InitPost ==
    /\ credentials \in BOOLEAN
    /\ remoteUsage \in UsageLevels
    /\ pc = "idle"
    /\ requests = 0
    /\ files = << >>
    /\ usageCheck = NoSnapshot
    /\ task = << >>
    /\ usageQueries = 0
    /\ uploadCalls = {}
    /\ response = NoResponse

InitSide ==
    /\ proxy = NoProxy
    /\ bundle = NoBundle
    /\ uploader = NoUploader
    /\ tracker = NoTracker
    /\ inflight = NoInflight
    /\ promise = NoPromise
    /\ home = NoHome

Init ==
    /\ now = 0
    /\ rateLimitStore = << >>
    /\ calls = << >>
    /\ InitPost
    /\ val = NoVal
    /\ InitSide

\* The POST handler, one request at a time.
Next ==
    \/ \E h \in Headers, t \in ArrivalTimes : POST_Receive(h, t)
    \/ \E parsable \in BOOLEAN, fs \in Batches : POST_FormData(parsable, fs)
    \/ \E ok \in BOOLEAN : POST_Dispatch(ok)
    \/ \E i \in 1..MaxFiles, ok \in BOOLEAN : Task_UsageReply(i, ok)
    \/ \E i \in 1..MaxFiles, cb \in Callbacks : Task_UploadCallback(i, cb)
    \/ POST_Aggregate
    \/ \E u \in UsageLevels : RemoteUsageChange(u)

Spec == Init /\ [][Next]_vars

\* The rate limiter alone.
NextRL ==
    \/ \E id \in ClientIds, t \in TimePoints : CheckRateLimit(id, t)
    \/ \E t \in TimePoints : cleanupRateLimitStore(t)

InitRL ==
    /\ Init
    /\ credentials
    /\ remoteUsage = [bandwidth |-> 0, storage |-> 0, transformations |-> 20000]

SpecRL == InitRL /\ [][NextRL]_vars

\* The validators alone, on every file of ValFiles.
InitVal ==
    /\ now = 0
    /\ rateLimitStore = << >>
    /\ calls = << >>
    /\ InitPost
    /\ credentials
    /\ remoteUsage = [bandwidth |-> 0, storage |-> 0, transformations |-> 20000]
    /\ val \in {[file |-> f, verdict |-> "none"] : f \in ValFiles}
    /\ InitSide

NextVal == ValidateFile

SpecVal == InitVal /\ [][NextVal]_vars

\* The POST handler under the scheduling the runtime gives it: a request
\* body that is being read arrives, a usage query is answered, and a handler
\* whose promises have all settled runs on. Nothing obliges the remote
\* service to invoke an upload callback.
Fairness ==
    /\ WF_vars(\E parsable \in BOOLEAN, fs \in Batches : POST_FormData(parsable, fs))
    /\ WF_vars(\E ok \in BOOLEAN : POST_Dispatch(ok))
    /\ WF_vars(\E i \in 1..MaxFiles, ok \in BOOLEAN : Task_UsageReply(i, ok))
    /\ WF_vars(POST_Aggregate)

SpecFair == Spec /\ Fairness

\* The relay of one image alone.
NextProxy ==
    \/ \E parsable \in BOOLEAN, u \in 1..Len(ProxyUrls) : Proxy_POST(parsable, u)
    \/ \E outcome \in FetchOutcomes : Proxy_FetchReply(outcome)

SpecProxy == InitRL /\ [][NextProxy]_vars

\* The relay of a bundle alone.
NextBundle ==
    \/ \E parsable \in BOOLEAN, n \in BundleSizes : Bundle_POST(parsable, n)
    \/ \E outcome \in FetchOutcomes : Bundle_FetchReply(outcome)
    \/ Bundle_Generate

SpecBundle == InitRL /\ [][NextBundle]_vars

\* The uploader and the two revisions of Home.handleUpload.
NextUploader ==
    \/ \E k \in 0..MaxDropped : onDrop(k)
    \/ \E index \in 1..MAX_SELECTED_FILES : removeFile(index)
    \/ \E size \in OutputSizeOptions, checked \in BOOLEAN :
          handleSizeToggle(size, checked)
    \/ \E failing \in 0..1 : Home_handleUpload(failing)
    \/ \E failing \in 0..1 : Home_handleUploadPerFile(failing)

SpecUploader == InitRL /\ [][NextUploader]_vars

\* checkUsageLimit alone, on every report of TrackerUsages at every date of
\* CalendarDays.
InitTracker ==
    /\ now = 0
    /\ rateLimitStore = << >>
    /\ calls = << >>
    /\ InitPost
    /\ credentials
    /\ remoteUsage = [bandwidth |-> 0, storage |-> 0, transformations |-> 20000]
    /\ val = NoVal
    /\ proxy = NoProxy
    /\ bundle = NoBundle
    /\ uploader = NoUploader
    /\ inflight = NoInflight
    /\ promise = NoPromise
    /\ home = NoHome
    /\ tracker \in {[NoTracker EXCEPT !.usage = u, !.today = t] :
                        u \in TrackerUsages, t \in CalendarDays}

NextTracker == \E ok \in BOOLEAN : Tracker_Check(ok)

SpecTracker == InitTracker /\ [][NextTracker]_vars

----------------------------------------------------------------------------
(* Claims about the rate limiter, checked under SpecRL *)

CallsOf(id) == {i \in 1..Len(calls) : calls[i].id = id}
AdmittedOf(id) == {i \in CallsOf(id) : calls[i].allowed}
WindowsOf(id) == {calls[i].window : i \in CallsOf(id)}
\* The admitted calls of id counted in the window that ends at w.
AdmittedIn(id, w) == {i \in AdmittedOf(id) : calls[i].window = w}
\* The admitted calls of id that arrived in the 60 seconds starting at s.
AdmittedFrom(id, s) ==
    {i \in AdmittedOf(id) : s <= calls[i].t /\ calls[i].t < s + WINDOW_MS}

C3_CountInRange ==
    \A id \in DOMAIN rateLimitStore :
        /\ rateLimitStore[id].count >= 1
        /\ rateLimitStore[id].count <= rateLimitPerMinute

\* A step that is a call arriving inside the window with count at the ceiling
\* is a denial and leaves the store as it was.
C3_DeniedAtCeiling ==
    Len(calls') = Len(calls) + 1 =>
        LET c == calls'[Len(calls')] IN
        (/\ HasEntry(rateLimitStore, c.id)
         /\ c.t <= rateLimitStore[c.id].resetTime
         /\ rateLimitStore[c.id].count = rateLimitPerMinute)
        => (~c.allowed /\ rateLimitStore' = rateLimitStore)

\* C3: every entry's count is in 1 .. ceiling, and a request inside the
\* window at count = ceiling is denied without touching the counter.
C3_CounterNeverPastCeiling ==
    []C3_CountInRange /\ [][C3_DeniedAtCeiling]_vars

C3_Witness ==
    \E i \in 1..Len(calls) :
        /\ ~calls[i].allowed
        /\ HasEntry(rateLimitStore, calls[i].id)
        /\ rateLimitStore[calls[i].id].count = rateLimitPerMinute

\* The first `ceiling` requests of a window are admitted: a denial is
\* preceded by `ceiling` admissions counted in the same window.
FirstRequestsAdmitted ==
    \A i \in 1..Len(calls) :
        ~calls[i].allowed =>
            Cardinality({j \in AdmittedIn(calls[i].id, calls[i].window) : j < i})
                = rateLimitPerMinute

\* C4 as stated: no 60-second interval, wherever it starts, holds more than
\* `ceiling` admitted requests of one identifier, and the first `ceiling`
\* requests of a window are admitted.
C4_RollingWindow ==
    /\ \A id \in ClientIds : \A i \in AdmittedOf(id) :
          Cardinality(AdmittedFrom(id, calls[i].t)) <= rateLimitPerMinute
    /\ FirstRequestsAdmitted

\* C4 as amended: the bound holds per fixed window. Every call falls in the
\* 60 seconds before the reset time of the window it is counted in, the
\* admitted calls of one window are at most `ceiling`, the current window's
\* admissions are the stored count, and the first `ceiling` requests of a
\* window are admitted.
C4_FixedWindow ==
    /\ \A i \in 1..Len(calls) :
          /\ calls[i].window - WINDOW_MS <= calls[i].t
          /\ calls[i].t <= calls[i].window
    /\ \A id \in ClientIds : \A w \in WindowsOf(id) :
          /\ Cardinality(AdmittedIn(id, w)) <= rateLimitPerMinute
          /\ \A i \in AdmittedOf(id) :
                (w - WINDOW_MS <= calls[i].t /\ calls[i].t <= w)
                    => calls[i].window = w
    /\ \A id \in DOMAIN rateLimitStore :
          Cardinality(AdmittedIn(id, rateLimitStore[id].resetTime))
              = rateLimitStore[id].count
    /\ FirstRequestsAdmitted

\* Two consecutive windows together put more than `ceiling` admissions into
\* one 60-second interval, each window holding at most `ceiling`.
C4_Witness ==
    \E id \in ClientIds : \E i \in AdmittedOf(id) :
        /\ Cardinality(AdmittedFrom(id, calls[i].t)) > rateLimitPerMinute
        /\ \A w \in WindowsOf(id) :
              Cardinality(AdmittedIn(id, w)) <= rateLimitPerMinute

\* C5 as stated: every denial reports retryAfter >= 1.
C5_RetryAfterPositive ==
    \A i \in 1..Len(calls) : ~calls[i].allowed => calls[i].retryAfter >= 1
----------------------------------------------------------------------------
(* Claims about POST /api/process, checked under Spec *)

Completed == pc = "responded" /\ response.completed

\* The validator's contract, written out: size and declared type.
Acceptable(file) ==
    /\ file.size <= 10 * 1024 * 1024
    /\ file.type \in {"image/jpeg", "image/png", "image/gif", "image/webp"}

\* File i went through uploadAndOptimizeImage: its upload was issued, or the
\* quota check of its own upload refused it.
WentToUpload(i) ==
    \/ i \in uploadCalls
    \/ /\ task[i].stage = "done"
       /\ task[i].error # << >>
       /\ IncludesQuotaText(task[i].error[1].error)

\* How often the file named n is listed among the successes and the failures.
TimesListed(n) ==
    Cardinality({k \in 1..Len(response.results) :
                    response.results[k].originalName = n})
    + Cardinality({k \in 1..Len(response.errors) :
                    response.errors[k].fileName = n})

\* C1: in a batch result, processed + failed = total_images, and every
\* submitted file is listed exactly once, as a success or as a failure.
C1_EveryFileCountedOnce ==
    Completed =>
        /\ response.total = Len(files)
        /\ response.processed = Len(response.results)
        /\ response.failed = Len(response.errors)
        /\ response.processed + response.failed = response.total
        /\ \A i \in 1..Len(files) : TimesListed(files[i].name) = 1

\* A rejection by the validator, a failed upload and a success in one batch,
\* or two of them when the batch has two files.
C1_Witness ==
    /\ Completed
    /\ response.processed >= 1
    /\ response.failed >= 1
    /\ \E i \in DOMAIN task : task[i].success
    /\ \E i \in DOMAIN task : ~task[i].success /\ i \in uploadCalls

\* C2 as stated: when the snapshot taken before the uploads shows a usage of
\* 100% or more, no upload is issued and every file that reached the upload
\* step is reported as a quota-exceeded failure.
C2_OverLimitNoUpload ==
    (/\ Completed
     /\ usageCheck.usage # << >>
     /\ AnyAtLeast100(usageCheck.usage[1]))
    => /\ uploadCalls = {}
       /\ response.processed = 0
       /\ \A i \in 1..Len(files) :
             Acceptable(files[i]) =>
                 \E k \in 1..Len(response.errors) :
                     /\ response.errors[k].fileName = files[i].name
                     /\ IncludesQuotaText(response.errors[k].error)

\* C7: a file the validator rejects is settled at once with the validation
\* reason, causes no remote call (neither usage query nor upload) and is
\* listed among the failures; the accepted files of the batch have their
\* upload issued and their own outcome listed.
C7_RejectedFileNeverUploaded ==
    pc \in {"running", "responded"} /\ task # << >> =>
        /\ usageQueries =
              1 + Cardinality({i \in 1..Len(files) : Acceptable(files[i])})
        /\ \A i \in 1..Len(files) :
              ~Acceptable(files[i]) =>
                  /\ i \notin uploadCalls
                  /\ task[i].stage = "done"
                  /\ ~task[i].success
                  /\ task[i].error[1].error =
                        (IF files[i].size > 10 * 1024 * 1024
                         THEN SizeError ELSE TypeError)
                  /\ Completed =>
                        \E k \in 1..Len(response.errors) :
                            response.errors[k] = task[i].error[1]
        /\ \A i \in 1..Len(files) :
              (Acceptable(files[i]) /\ Completed) =>
                  /\ WentToUpload(i)
                  /\ TimesListed(files[i].name) = 1

C7_Witness ==
    /\ Completed
    /\ \E i, j \in 1..Len(files) :
          /\ ~Acceptable(files[i])
          /\ files[i].type = "image/bmp"
          /\ Acceptable(files[j])
          /\ task[j].success

\* C8: a request refused with 429, 503 or 400 gets one top-level error, with
\* no usage query, no upload and no per-file task; and only a batch of 1 ..
\* maxConcurrentUploads files, with the credentials set, gets any further.
C8_RefusedBeforeAnyRemoteCall ==
    /\ (pc = "responded" /\ response.status \in {429, 503, 400}) =>
          /\ usageQueries = 0
          /\ uploadCalls = {}
          /\ task = << >>
          /\ files = << >>
          /\ response.error \in {"rate limit", "configuration", "no files",
                                 "file count"}
          /\ ~response.completed
          /\ response.results = << >> /\ response.errors = << >>
          /\ (response.status = 429) = (response.error = "rate limit")
          /\ (response.status = 503) = (response.error = "configuration")
          /\ (response.status = 429) = (response.retryAfter # -1)
    /\ (usageQueries > 0 \/ uploadCalls # {} \/ task # << >>) =>
          /\ credentials
          /\ Len(files) >= 1
          /\ Len(files) <= maxConcurrentUploads

\* The request after `ceiling` admitted ones is refused with 429.
C8_Witness ==
    /\ pc = "responded"
    /\ response.status = 429
    /\ requests = rateLimitPerMinute + 1
    /\ usageQueries = 0

\* C9 as stated: when every file of the batch failed, the call ends as an
\* error citing the first failure's reason, not as a completed batch result.
C9_TotalFailureIsError ==
    (/\ pc = "responded"
     /\ task # << >>
     /\ \A i \in DOMAIN task : ~task[i].success)
    => /\ ~response.completed
       /\ response.status # 200
       /\ response.error = task[1].error[1].error

\* Every file has its task from the dispatch on, and the response is built
\* from settled tasks only, each accepted file with its upload issued.
C10_SettledBeforeResponse ==
    /\ pc \in {"running", "responded"} /\ task # << >> =>
          DOMAIN task = 1..Len(files)
    /\ Completed =>
          \A i \in 1..Len(files) :
              /\ task[i].stage = "done"
              /\ Acceptable(files[i]) => WentToUpload(i)
              /\ TimesListed(files[i].name) = 1
              /\ task[i].success =>
                    \E k \in 1..Len(response.results) :
                        response.results[k] = task[i].data[1]
              /\ ~task[i].success =>
                    \E k \in 1..Len(response.errors) :
                        response.errors[k] = task[i].error[1]

\* A step in which a task settles as a failure changes no sibling task and
\* takes back no upload.
C10_FailureLeavesSiblings ==
    (pc = "running" /\ pc' = "running") =>
        \A i \in DOMAIN task :
            (task[i].stage # "done" /\ task'[i].stage = "done"
                /\ ~task'[i].success)
            => /\ \A j \in DOMAIN task \ {i} : task'[j] = task[j]
               /\ uploadCalls \subseteq uploadCalls'

\* C10: all files are dispatched together, the response waits for every
\* task, and a failing file neither cancels a sibling nor keeps the sibling's
\* upload from being issued and its outcome from being reported.
C10_SiblingsIndependent ==
    []C10_SettledBeforeResponse /\ [][C10_FailureLeavesSiblings]_vars

\* One file's upload failed while the sibling's upload was still to be
\* issued, and the sibling succeeded.
C10_Witness ==
    /\ Completed
    /\ \E i, j \in DOMAIN task :
          /\ i # j
          /\ ~task[i].success /\ i \in uploadCalls
          /\ task[j].success

----------------------------------------------------------------------------
(* Claims about the validators, checked under SpecVal *)

\* C6: a file goes on to the upload exactly when its size is at most the
\* maximum and its type is one of the four image types; the maximum itself
\* is accepted, one byte more is not, application/pdf never is.
C6_AcceptedIff ==
    val.verdict # "none" =>
        /\ (val.verdict = "upload") = Acceptable(val.file)
        /\ (val.file.size = maxFileSize /\ val.file.type = "image/jpeg")
              => val.verdict = "upload"
        /\ val.file.size = maxFileSize + 1 => val.verdict = SizeError
        /\ val.file.type = "application/pdf"
              => val.verdict \in {SizeError, TypeError}
        /\ val.verdict \in {"upload", SizeError, TypeError}

C6_Witness ==
    /\ val.verdict = "upload"
    /\ val.file.size = maxFileSize
    /\ val.file.type = "image/webp"

\* Concurrent handlers, interleaved at their awaits.
\* The rate limiter with its timer: requests, the passage of time and the
\* sweep every 5 minutes.  The timer of a running process keeps firing.
NextSweep ==
    \/ \E id \in ClientIds : Sweep_Request(id)
    \/ \E t \in SweepClock : Sweep_Advance(t)
    \/ Sweep_Timer

SpecSweep == InitRL /\ [][NextSweep]_vars /\ WF_vars(Sweep_Timer)

\* The uploads of one batch under the timeout of unnamed/part_009.
NextPromise ==
    \/ \E n \in 1..MaxTimeoutFiles : Promise_Dispatch(n)
    \/ \E f \in 1..MaxTimeoutFiles : Promise_Timeout(f)
    \/ \E f \in 1..MaxTimeoutFiles, cb \in UploadCallbacks :
          Promise_Callback(f, cb)

SpecPromise == InitRL /\ [][NextPromise]_vars

\* The Home page.
NextPage ==
    \/ \E n \in 1..MaxPageFiles : Page_handleUpload(n)
    \/ \E a \in PerFileAnswers : Page_FetchReply(a)
    \/ Page_handleUploadOnce
    \/ \E ok \in BOOLEAN : Page_ReplyOnce(ok)
    \/ Page_Timer
    \/ Page_handleReset

SpecPage == InitRL /\ [][NextPage]_vars

NextConc ==
    \/ \E r \in 1..MaxInflight, h \in Headers, t \in ConcTimes : Conc_Arrive(r, h, t)
    \/ \E r \in 1..MaxInflight : Conc_Resume(r)

SpecConc == InitRL /\ [][NextConc]_vars

----------------------------------------------------------------------------
(* Claims C11 .. C20 *)

\* C11: a batch whose per-file tasks are running is eventually answered, even
\* if the remote service never invokes the upload callback of one of its
\* files: that file is settled as a failure and no hung upload blocks the
\* batch forever.
C11_BatchEventuallyAnswered == (pc = "running") ~> (pc = "responded")

\* The quota check made when the batch began saw a usage of 100% or more.
OverLimitDetected ==
    /\ pc = "running"
    /\ usageCheck.usage # << >>
    /\ AnyAtLeast100(usageCheck.usage[1])

C13_UsageQueryFailureFailsOpen ==
    /\ \A u \in UsageLevels :
          checkUsageLimit(u, FALSE) =
              [isNearLimit |-> FALSE, isOverLimit |-> FALSE, usage |-> << >>]
    /\ (pc \in {"running", "responded"} /\ task # << >>
        /\ usageCheck.usage = << >>) =>
          /\ ~usageCheck.isNearLimit
          /\ ~usageCheck.isOverLimit
          /\ pc = "responded" =>
                /\ Completed
                /\ response.status = 200
                /\ response.usage = << >>
                /\ \A i \in 1..Len(files) :
                      Acceptable(files[i]) => WentToUpload(i)
    /\ (pc = "responded" /\ response.status = 500) => usageQueries = 0

\* The usage query of the batch failed, and a file of the batch was uploaded
\* and is listed as a success.
C13_Witness ==
    /\ Completed
    /\ usageCheck.usage = << >>
    /\ uploadCalls # {}
    /\ response.processed >= 1

\* The host of a URL: what stands between "://" and the next "/" or "?".
AfterScheme(url) ==
    IF \E i \in 1..Len(url) - 2 : SubSeq(url, i, i + 2) = <<":", "/", "/">>
    THEN SubSeq(url,
                Smallest({i \in 1..Len(url) - 2 :
                             SubSeq(url, i, i + 2) = <<":", "/", "/">>}) + 3,
                Len(url))
    ELSE url
HostOf(url) == BeforeFirst(BeforeFirst(AfterScheme(url), "/"), "?")
OnExpectedHost(u) ==
    HostOf(ProxyUrls[u]) =
        <<"r", "e", "s", ".", "c", "l", "o", "u", "d", "i", "n", "a", "r", "y",
          ".", "c", "o", "m">>

\* C14 as stated: the relay fetches only URLs whose host is res.cloudinary.com;
\* a URL of any other host is answered with an error and is not fetched,
\* wherever else the host name appears in it.
C14_FetchOnlyExpectedHost ==
    /\ \A k \in 1..Len(proxy.fetched) : OnExpectedHost(proxy.fetched[k])
    /\ (proxy.url # 0 /\ ~OnExpectedHost(proxy.url)) =>
          /\ proxy.pc = "responded"
          /\ proxy.status = 400

\* C15: a bundle request that lists more than 20 URLs is answered 413 before
\* any fetch: no URL is fetched and no archive is produced.
C15_TooManyUrlsRejectedUnfetched ==
    bundle.n > 20 =>
        /\ bundle.pc = "responded"
        /\ bundle.status = 413
        /\ bundle.fetches = 0
        /\ bundle.fetchedOk = {}
        /\ bundle.zip = << >>
        /\ bundle.archive = << >>

\* A request of 21 URLs was answered 413.
C15_Witness ==
    /\ bundle.pc = "responded"
    /\ bundle.n = 21
    /\ bundle.status = 413

Dimensions(size) ==
    CASE size = "2000x2000" -> [width |-> 2000, height |-> 2000]
      [] size = "970x600" -> [width |-> 970, height |-> 600]
      [] size = "300x300" -> [width |-> 300, height |-> 300]

\* The output URLs a success entry carries, with their dimensions: the main
\* image under the entry's dimensions, the thumbnail at 1000 x 1000.
Outputs(entry) ==
    {[url |-> entry.optimizedUrl, width |-> entry.width, height |-> entry.height],
     [url |-> entry.mainImageUrl, width |-> entry.width, height |-> entry.height],
     [url |-> entry.thumbnailUrl, width |-> 1000, height |-> 1000]}

\* C17 as stated: every success entry of a batch that requested the sizes S
\* carries, for every size of S, an output URL with that size's dimensions,
\* and distinct URLs for distinct sizes.
C17_OneOutputPerRequestedSize ==
    (uploader.stage = "answered" /\ uploader.answer.completed) =>
        \A k \in 1..Len(uploader.answer.results) :
            \E f \in [1..Len(uploader.requested) ->
                         Outputs(uploader.answer.results[k])] :
                /\ \A j \in 1..Len(uploader.requested) :
                      /\ f[j].width = Dimensions(uploader.requested[j]).width
                      /\ f[j].height = Dimensions(uploader.requested[j]).height
                /\ \A j1, j2 \in 1..Len(uploader.requested) :
                      j1 # j2 => f[j1].url # f[j2].url

\* C18 as stated: a selection of 1 to 8 valid images submitted under the
\* default configuration is never refused for its file count, and every file
\* of it is processed.
C18_UpToEightNeverRefused ==
    (uploader.stage = "answered" /\ Len(uploader.sent) \in 1..8) =>
        /\ uploader.answer.error # "file count"
        /\ uploader.answer.status = 200
        /\ uploader.answer.total = Len(uploader.sent)

\* C19 as stated: after a successful usage query the over-limit flag is true
\* exactly when one of the three percentages is at least 100, and the
\* near-limit flag exactly when one of them is above 80.
C19_FlagsMatchPercentages ==
    (tracker.snapshot # << >> /\ tracker.queryOk) =>
        /\ tracker.snapshot[1].isOverLimit <=>
              \/ tracker.usage.bandwidth * 100 >= 100 * 25 * 1024
              \/ tracker.usage.storage * 100 >= 100 * 25 * 1024
              \/ tracker.usage.transformations * 100 >= 100 * 25000
        /\ tracker.snapshot[1].isNearLimit <=>
              \/ tracker.usage.bandwidth * 100 > 80 * 25 * 1024
              \/ tracker.usage.storage * 100 > 80 * 25 * 1024
              \/ tracker.usage.transformations * 100 > 80 * 25000

\* C20 as stated: the next-reset date of a snapshot is the first day of the
\* calendar month that follows the month of the query.
C20_FirstDayOfNextMonth ==
    (tracker.snapshot # << >> /\ tracker.snapshot[1].nextResetDate # << >>) =>
        tracker.snapshot[1].nextResetDate[1] =
            (IF tracker.today.month = 11
             THEN <<tracker.today.year + 1, 1, 1>>
             ELSE <<tracker.today.year, tracker.today.month + 2, 1>>)

----------------------------------------------------------------------------
(* Claims C21 .. C30 *)

\* C21 as stated: handling one batch issues exactly one remote usage query,
\* whatever the number of its files, and that query is issued before every
\* upload call of the batch.
C21_OneUsageQueryPerBatch ==
    /\ (pc \in {"usage", "running"} \/ Completed) => usageQueries = 1
    /\ uploadCalls # {} => usageQueries >= 1

\* The admitted calls of id that fell into the window ending at w.
AdmittedInWindow(id, w) ==
    {i \in 1..Len(calls) :
        calls[i].id = id /\ calls[i].allowed /\ calls[i].window = w}

\* C22: whatever handlers are suspended in between, no update of the
\* rate-limit counter is lost: the stored count of an identifier is exactly
\* the number of its requests admitted in the current window.
C22_NoLostUpdate ==
    \A id \in DOMAIN rateLimitStore :
        rateLimitStore[id].count =
            Cardinality(AdmittedInWindow(id, rateLimitStore[id].resetTime))

\* Two requests of one identifier were admitted in one window, the second
\* while the handler of the first was still suspended.
C22_Witness ==
    /\ \E id \in DOMAIN rateLimitStore : rateLimitStore[id].count = 2
    /\ \A r \in 1..MaxInflight : inflight[r] # "none"
    /\ Len(calls) = 2
    /\ calls[1].id = calls[2].id

\* A step that is a call of checkRateLimit follows the three cases.
C23_ThreeCases ==
    Len(calls') = Len(calls) + 1 =>
        LET c == calls'[Len(calls')] IN
        IF c.id \notin DOMAIN rateLimitStore
           \/ c.t > rateLimitStore[c.id].resetTime
        THEN /\ rateLimitStore'[c.id] = [count |-> 1, resetTime |-> c.t + 60000]
             /\ c.allowed
        ELSE IF rateLimitStore[c.id].count < rateLimitPerMinute
        THEN /\ rateLimitStore'[c.id].count = rateLimitStore[c.id].count + 1
             /\ rateLimitStore'[c.id].resetTime = rateLimitStore[c.id].resetTime
             /\ c.allowed
        ELSE /\ ~c.allowed
             /\ c.retryAfter * 1000 >= rateLimitStore[c.id].resetTime - c.t
             /\ (c.retryAfter - 1) * 1000 < rateLimitStore[c.id].resetTime - c.t

\* C23: checkRateLimit(id) opens a window {count: 1, resetTime: now + 60 s}
\* and allows when id has no entry or now is past the entry's resetTime;
\* otherwise, below the ceiling, it adds exactly 1 to the count, keeps the
\* resetTime and allows; otherwise it denies with the whole seconds that
\* remain until resetTime.
C23_ThreeCaseContract == [][C23_ThreeCases]_vars

\* One identifier went through all the cases: a window opened, a second
\* request counted, a third denied, a fourth opening the next window.
C23_Witness ==
    /\ Len(calls) = 4
    /\ \A i \in 1..4 : calls[i].id = calls[1].id
    /\ calls[1].allowed /\ calls[2].allowed /\ ~calls[3].allowed
    /\ calls[2].window = calls[1].window
    /\ calls[3].retryAfter >= 1
    /\ calls[4].allowed
    /\ calls[4].window > calls[3].window

\* The entry of id that ends at r is in the store.
EntryOf(id, r) ==
    id \in DOMAIN rateLimitStore /\ rateLimitStore[id].resetTime = r

ResetTimes == {t + WINDOW_MS : t \in SweepClock}

\* An entry leaves the store (deleted, or replaced by a new window) only at
\* a time past its resetTime.
C24_RemovedOnlyElapsed ==
    \A id \in DOMAIN rateLimitStore :
        ~(id \in DOMAIN rateLimitStore'
          /\ rateLimitStore'[id].resetTime = rateLimitStore[id].resetTime)
            => now' > rateLimitStore[id].resetTime

\* C24: every entry is eventually removed once its window has elapsed, with
\* or without another request of its identifier (the sweep of the timer),
\* and neither checkRateLimit nor the sweep removes an entry whose window
\* has not elapsed.
C24_EntriesEventuallyRemoved ==
    /\ [][C24_RemovedOnlyElapsed]_vars
    /\ \A id \in ClientIds : \A r \in ResetTimes :
           EntryOf(id, r) ~> ~EntryOf(id, r)

\* The sweep removed an entry that no later request touched: its window
\* ended exactly at the first sweep, which kept it, and the second sweep
\* removed it.
C24_Witness ==
    \E i \in 1..Len(calls) :
        /\ calls[i].window = SWEEP_INTERVAL_MS
        /\ calls[i].id \notin DOMAIN rateLimitStore
        /\ \A j \in 1..Len(calls) : calls[j].id = calls[i].id => j <= i


\* C25: when k of the requested URLs are fetched, the entries of the archive
\* carry the consecutive numbers 1..k, whichever positions of the list failed.
C25_ConsecutiveEntryNumbers ==
    (bundle.pc = "responded" /\ bundle.status = 200) =>
        {bundle.archive[1][j].number : j \in 1..Len(bundle.archive[1])}
            = 1..Cardinality(bundle.fetchedOk)


\* The files the answer lists: the successes, then the failures.
Listed ==
    promise.results
        \o [j \in 1..Len(promise.errors) |-> promise.errors[j].fileName]

\* An outcome once produced stays, the lists of the answer stay, and the
\* answer lists every file exactly once, under its outcome.
C26_Step ==
    /\ \A f \in 1..Len(promise.uploads) :
          promise.uploads[f].outcome # "none" =>
              promise'.uploads[f].outcome = promise.uploads[f].outcome
    /\ promise.pc = "responded" =>
          /\ promise'.results = promise.results
          /\ promise'.errors = promise.errors
    /\ promise'.pc = "responded" =>
          /\ Len(promise'.results) + Len(promise'.errors) = promise'.n
          /\ \A f \in 1..promise'.n :
                /\ f \in {promise'.results[j] : j \in 1..Len(promise'.results)}
                      <=> promise'.uploads[f].outcome = "success"
                /\ \A v \in {"timeout", "upload error", "no result"} :
                      [fileName |-> f, error |-> v]
                          \in {promise'.errors[j] :
                                  j \in 1..Len(promise'.errors)}
                      <=> promise'.uploads[f].outcome = v

\* C26: each dispatched file yields exactly one outcome that never changes:
\* when both the 30-second timer and the upload callback fire for a file,
\* the first settles the outcome and the second neither changes it nor adds
\* an entry to the list of successes or of failures.
C26_OneOutcomePerFile == [][C26_Step]_vars

\* The timer of file 1 fired and its callback then brought a result, after
\* the answer; file 2 was settled by its callback, which cleared the timer.
C26_Witness ==
    /\ promise.pc = "responded"
    /\ promise.n = 2
    /\ promise.uploads[1].timer = "fired"
    /\ promise.uploads[1].callback = "result"
    /\ promise.uploads[1].outcome = "timeout"
    /\ promise.uploads[2].timer = "cleared"
    /\ promise.errors = <<[fileName |-> 1, error |-> "timeout"]>>
    /\ promise.results = <<2>>


\* A step that is a call of checkRateLimit for an identifier leaves the
\* entries of the others as they were, and a denied call leaves the store.
C27_Frame ==
    Len(calls') = Len(calls) + 1 =>
        LET c == calls'[Len(calls')] IN
        /\ \A b \in ClientIds \ {c.id} :
              /\ b \in DOMAIN rateLimitStore' <=> b \in DOMAIN rateLimitStore
              /\ b \in DOMAIN rateLimitStore =>
                    rateLimitStore'[b] = rateLimitStore[b]
        /\ ~c.allowed => rateLimitStore' = rateLimitStore

\* C27: a call of checkRateLimit for identifier a never creates, changes or
\* deletes the entry of an identifier b # a, and a denied call leaves the
\* whole store unchanged.
C27_CheckRateLimitFrame == [][C27_Frame]_vars

\* A call was denied at a time when the other identifier still had its entry,
\* the window of which had elapsed.
C27_Witness ==
    /\ Len(calls) = 4
    /\ ~calls[4].allowed
    /\ calls[1].id # calls[4].id
    /\ calls[1].id \in DOMAIN rateLimitStore
    /\ calls[4].t > rateLimitStore[calls[1].id].resetTime


\* The request of identifier id took one unit of the window of id, and no
\* other entry changed.
ConsumedOne(id) ==
    /\ id \in DOMAIN rateLimitStore'
    /\ \/ /\ id \notin DOMAIN rateLimitStore
             \/ now' > rateLimitStore[id].resetTime
          /\ rateLimitStore'[id].count = 1
       \/ /\ id \in DOMAIN rateLimitStore
          /\ rateLimitStore'[id] =
                [rateLimitStore[id] EXCEPT !.count = @ + 1]
    /\ \A b \in DOMAIN rateLimitStore' \cup DOMAIN rateLimitStore :
          b # id => /\ b \in DOMAIN rateLimitStore
                    /\ b \in DOMAIN rateLimitStore'
                    /\ rateLimitStore'[b] = rateLimitStore[b]

\* The arrival of a request either is answered 429, with nothing else done,
\* or takes one unit, whatever answers the request then; the later steps of
\* the handler take none.
C28_Step ==
    /\ requests' = requests => rateLimitStore' = rateLimitStore
    /\ requests' = requests + 1 =>
          IF response'.status = 429
          THEN /\ pc' = "responded"
               /\ rateLimitStore' = rateLimitStore
          ELSE /\ response'.status \in {0, 503}
               /\ \E h \in Headers : ConsumedOne(getClientIp(h))
    /\ response'.status = 429 =>
          /\ files' = << >>
          /\ usageQueries' = 0
          /\ uploadCalls' = {}

\* C28: the rate-limit admission is the first step of POST /api/process:
\* every request not answered 429 has consumed exactly one unit of the window
\* of its identifier, the requests then refused with 503 or 400 included,
\* and a request answered 429 reaches no later step.
C28_AdmissionFirst == [][C28_Step]_vars

\* Two requests of one identifier were refused for the missing credentials,
\* and both are counted in its window.
C28_Witness ==
    /\ ~credentials
    /\ requests = 2
    /\ pc = "responded"
    /\ response.status = 503
    /\ \E id \in DOMAIN rateLimitStore : rateLimitStore[id].count = 2


\* C29: when the per-file loop of Home.handleUpload has ended, every file is
\* accounted for exactly once: results.length + errors.length = files.length,
\* whatever the answers of the server were.
C29_EveryFileAccounted ==
    (home.pc # "fetching" /\ home.n > 0) =>
        Len(home.results) + Len(home.errors) = home.n

\* The number of blocks of the page that are rendered.
ViewsRendered(h) ==
    Cardinality({v \in {"error", "uploader", "status", "download"} :
        CASE v = "error" -> ErrorCardRendered(h)
          [] v = "uploader" -> UploaderRendered(h)
          [] v = "status" -> ProcessingStatusRendered(h)
          [] v = "download" -> DownloadManagerRendered(h)})

\* C30: in every reachable state of the Home page exactly one of the four
\* views is rendered; processing is never true with a non-null error, and
\* batchInfo and error are never both non-null.
C30_ExactlyOneView ==
    /\ ViewsRendered(home) = 1
    /\ ~(home.processing /\ home.error # "null")
    /\ ~(home.batchInfo # << >> /\ home.error # "null")

\* An upload of two files completed, one of them failed: the timer has
\* fired and the download manager is on.
C30_Witness ==
    /\ DownloadManagerRendered(home)
    /\ home.n = 2
    /\ home.batchInfo =
          <<[total_images |-> 2, processed |-> 1, failed |-> 1]>>

====
